---- MODULE Spec2Model ----
(***************************************************************************)
(* A model of ctc-import.py: EnterBacInvoices builds the allocation index  *)
(* (cs_map) from the Clubspark booking rows and posts one invoice per      *)
(* charged row; ProcessStripePayments walks the Stripe settlement rows and *)
(* creates payments, transfers, refunds and customer invoices.             *)
(*                                                                         *)
(* Python str values are sequences of one-character strings, so that       *)
(* startswith, re.search, re.sub and Decimal() are computed, not assumed.  *)
(* Money is an integer number of cents.  Ledger accounts are named by      *)
(* their path in the chart of accounts.                                    *)
(***************************************************************************)
EXTENDS Integers, Sequences, FiniteSets, TLC

\* ------------------------------------------------------------------------
\* Bounds of the model: the number of rows in the two CSV files.
MaxBookings == 2
MaxSettlements == 2

\* ------------------------------------------------------------------------
\* Module constants of ctc-import.py
COURT_BOOKING == <<"C","o","u","r","t"," ","b","o","o","k","i","n","g"," ","a","t"," ","C","o","b","u","r","g"," ","T","e","n","n","i","s"," ","C","l","u","b">>
MEMBERSHIP_PREFIX == <<"C","o","b","u","r","g"," ","T","e","n","n","i","s"," ","C","l","u","b",":">>
STRIPE_PAYOUT == <<"S","T","R","I","P","E"," ","P","A","Y","O","U","T">>
REFUND_PREFIX == <<"R","E","F","U","N","D"," ","F","O","R"," ","C","H","A","R","G","E">>
EVENT_PREFIX == <<"C","o","b","u","r","g"," ","T","e","n","n","i","s"," ","C","l","u","b"," ">>
NO_NAME_ENTRY == <<"N","o","N","a","m","e">>

\* ------------------------------------------------------------------------
\* Python str operations
\* s.startswith(p)
StartsWith(s, p) == Len(p) <= Len(s) /\ SubSeq(s, 1, Len(p)) = p

\* p occurs in s at position i
OccursAt(s, p, i) == i >= 1 /\ i + Len(p) - 1 <= Len(s) /\ SubSeq(s, i, i + Len(p) - 1) = p

\* the positions where the literal p occurs in s
Occurrences(s, p) == {i \in 1..Len(s) : OccursAt(s, p, i)}

\* re.search(p, s) for a pattern p without metacharacters
ReSearch(p, s) == Occurrences(s, p) # {}

UpperChars == <<"A","B","C","D","E","F","G","H","I","J","K","L","M","N","O","P","Q","R","S","T","U","V","W","X","Y","Z">>
LowerChars == <<"a","b","c","d","e","f","g","h","i","j","k","l","m","n","o","p","q","r","s","t","u","v","w","x","y","z">>

\* the lower-case letter of each upper-case letter
FoldTable ==
    [c \in {UpperChars[i] : i \in 1..Len(UpperChars)} |->
        LowerChars[CHOOSE i \in 1..Len(UpperChars) : UpperChars[i] = c]]

\* the case folding re.IGNORECASE applies to an ASCII character
FoldChar(c) == IF c \in DOMAIN FoldTable THEN FoldTable[c] ELSE c

Fold(s) == [i \in 1..Len(s) |-> FoldChar(s[i])]

\* re.search(p, s, re.IGNORECASE) for a pattern p without metacharacters
ReSearchIgnoreCase(p, s) == ReSearch(Fold(p), Fold(s))

\* the least element of a set of numbers
Least(S) == CHOOSE x \in S : \A y \in S : x <= y

\* the first index >= from where s holds c (0 if none)
IndexFrom(s, c, from) ==
    LET at == {i \in from..Len(s) : s[i] = c}
    IN  IF at = {} THEN 0 ELSE Least(at)

\* s.split(' ')[0]
SplitFirst(s) ==
    LET i == IndexFrom(s, " ", 1)
    IN  IF i = 0 THEN s ELSE SubSeq(s, 1, i - 1)

\* ------------------------------------------------------------------------
\* Numbers
DigitChars == <<"0","1","2","3","4","5","6","7","8","9">>

IsDigit(c) == \E i \in 1..Len(DigitChars) : DigitChars[i] = c

DigitVal(c) == (CHOOSE i \in 1..Len(DigitChars) : DigitChars[i] = c) - 1

RECURSIVE Nat10(_)
\* int() of a str of decimal digits
Nat10(s) == IF s = <<>> THEN 0 ELSE Nat10(SubSeq(s, 1, Len(s) - 1)) * 10 + DigitVal(s[Len(s)])

AllDigits(s) == \A i \in 1..Len(s) : IsDigit(s[i])

\* the unsigned part of a decimal literal, in cents (at most two decimals)
UnsignedCents(s) ==
    IF \E i \in 1..Len(s) : s[i] = "."
    THEN LET dot == CHOOSE i \in 1..Len(s) : s[i] = "."
             whole == SubSeq(s, 1, dot - 1)
             frac == SubSeq(s, dot + 1, Len(s))
         IN  Nat10(whole) * 100
               + (IF Len(frac) = 0 THEN 0
                  ELSE IF Len(frac) = 1 THEN Nat10(frac) * 10
                  ELSE Nat10(SubSeq(frac, 1, 2)))
    ELSE Nat10(s) * 100

\* Decimal(s): the value of a decimal literal, in cents
Decimal(s) ==
    IF s # <<>> /\ s[1] = "-" THEN 0 - UnsignedCents(Tail(s)) ELSE UnsignedCents(s)

\* GncNumeric(s): the ledger's number for a decimal literal, in cents
GncNumeric(s) == Decimal(s)

\* A Python value with its type: == between values of different types is False.
PyStr(s) == [type |-> "str", val |-> s]
PyInt(n) == [type |-> "int", val |-> n]
PyEq(a, b) == a.type = b.type /\ a.val = b.val

\* date.fromisoformat("YYYY-MM-DD")
IsIsoDate(s) ==
    /\ Len(s) = 10
    /\ s[5] = "-" /\ s[8] = "-"
    /\ AllDigits(SubSeq(s, 1, 4)) /\ AllDigits(SubSeq(s, 6, 7)) /\ AllDigits(SubSeq(s, 9, 10))

FromIsoFormat(s) ==
    [year |-> Nat10(SubSeq(s, 1, 4)), month |-> Nat10(SubSeq(s, 6, 7)), day |-> Nat10(SubSeq(s, 9, 10))]

\* ------------------------------------------------------------------------
\* The chart of accounts: each lookup is a fixed path
GetCheckingAcct == "Assets:Current Assets:Checking Account"
GetReceivablesAcct == "Assets:Accounts Receivable"
GetStripeAcct == "Assets:Current Assets:Stripe Account"
GetCourtHireAcct == "Income:Casual Hire:Court Hire"
GetLightHireAcct == "Income:Casual Hire:Hire Light Fees"
GetStripeFeeAcct == "Expenses:Stripe Fee"

\* the customer with ID 000001
GetBookACourtCustomer == <<"B","o","o","k"," ","A"," ","C","o","u","r","t">>

MembershipAccts ==
    {"Income:Memberships:Junior", "Income:Memberships:Social", "Income:Memberships:Student",
     "Income:Memberships:Senior", "Income:Memberships:Individual"}

EventAccts ==
    {"Income:Events:Open Court Sessions", "Income:Events:MensSocial", "Income:Events:Girl Lets Play",
     "Income:Events:Club Championships", "Income:Fundraising:Bingo", "Income:Fundraising:Club Events"}

\* re.search without flags: the keywords are matched case-sensitively
GetMembershipAcct(membership_detail) ==
    IF ReSearch(<<"J","u","n","i","o","r">>, membership_detail) THEN "Income:Memberships:Junior"
    ELSE IF ReSearch(<<"S","o","c","i","a","l">>, membership_detail) THEN "Income:Memberships:Social"
    ELSE IF ReSearch(<<"S","t","u","d","e","n","t">>, membership_detail) THEN "Income:Memberships:Student"
    ELSE IF ReSearch(<<"S","e","n","i","o","r">>, membership_detail) THEN "Income:Memberships:Senior"
    ELSE "Income:Memberships:Individual"

GetEventAcct(event_detail) ==
    IF ReSearchIgnoreCase(<<"O","p","e","n","C","o","u","r","t","S","e","s","s","i","o","n","s">>, event_detail) THEN "Income:Events:Open Court Sessions"
    ELSE IF ReSearchIgnoreCase(<<"M","e","n","s","S","o","c","i","a","l">>, event_detail) THEN "Income:Events:MensSocial"
    ELSE IF ReSearchIgnoreCase(<<"G","i","r","l">>, event_detail) THEN "Income:Events:Girl Lets Play"
    ELSE IF ReSearchIgnoreCase(<<"C","l","u","b"," ","C","h","a","m","p">>, event_detail) THEN "Income:Events:Club Championships"
    ELSE IF ReSearchIgnoreCase(<<"B","i","n","g","o">>, event_detail) THEN "Income:Fundraising:Bingo"
    ELSE "Income:Fundraising:Club Events"

\* ------------------------------------------------------------------------
\* The regular-expression substitutions of ProcessStripePayments

\* the last index where s holds c (0 if none)
LastIndexOf(s, c) ==
    LET at == {i \in 1..Len(s) : s[i] = c}
    IN  IF at = {} THEN 0 ELSE 0 - Least({0 - i : i \in at})

\* re.sub(REFUND_PREFIX + ' \((.*)\)', '\\1', description): the leftmost
\* "REFUND FOR CHARGE (" that a ")" follows, up to the last ")", is replaced
\* by what stands between them.
RefundItem(description) ==
    LET open == REFUND_PREFIX \o <<" ","(">>
        starts == {i \in Occurrences(description, open) :
                      \E j \in (i + Len(open))..Len(description) : description[j] = ")"}
    IN  IF starts = {} THEN description
        ELSE LET i == Least(starts)
                 close == LastIndexOf(description, ")")
             IN  SubSeq(description, 1, i - 1)
                   \o SubSeq(description, i + Len(open), close - 1)
                   \o SubSeq(description, close + 1, Len(description))

\* re.sub(MEMBERSHIP_PREFIX + ':(.*)', '\\1', description): the pattern is
\* the prefix followed by a second colon.
MembershipItem(description) ==
    LET pat == MEMBERSHIP_PREFIX \o <<":">>
        starts == Occurrences(description, pat)
    IN  IF starts = {} THEN description
        ELSE LET i == Least(starts)
             IN  SubSeq(description, 1, i - 1) \o SubSeq(description, i + Len(pat), Len(description))

\* the places where 'Customer: ([^,]*),' can match
CustomerStarts(detail) ==
    {i \in Occurrences(detail, <<"C","u","s","t","o","m","e","r",":"," ">>) : IndexFrom(detail, ",", i + 10) # 0}

\* re.sub('.*Customer: ([^,]*), *(.*)', '\\1', membership_detail)
CustomerName(detail) ==
    LET starts == CustomerStarts(detail)
    IN  IF starts = {} THEN detail
        ELSE LET i == CHOOSE k \in starts : \A m \in starts : k >= m
             IN  SubSeq(detail, i + 10, IndexFrom(detail, ",", i + 10) - 1)

\* the first index >= from where s holds no space (Len(s) + 1 if none)
SkipSpaces(s, from) ==
    LET at == {i \in from..Len(s) : s[i] # " "}
    IN  IF at = {} THEN Len(s) + 1 ELSE Least(at)

\* re.sub('.*Customer: ([^,]*), *(.*),.*', '\\2', membership_detail)
CustomerEmail(detail) ==
    LET starts == {i \in CustomerStarts(detail) :
                      LastIndexOf(detail, ",") > IndexFrom(detail, ",", i + 10)}
    IN  IF starts = {} THEN detail
        ELSE LET i == CHOOSE k \in starts : \A m \in starts : k >= m
                 c == IndexFrom(detail, ",", i + 10)
                 last == LastIndexOf(detail, ",")
             IN  SubSeq(detail, SkipSpaces(SubSeq(detail, 1, last - 1), c + 1), last - 1)

\* ------------------------------------------------------------------------
\* datetime.strptime

\* s.split(c)
RECURSIVE SplitOn(_, _)
SplitOn(s, c) ==
    LET i == IndexFrom(s, c, 1)
    IN  IF i = 0 THEN <<s>> ELSE <<SubSeq(s, 1, i - 1)>> \o SplitOn(SubSeq(s, i + 1, Len(s)), c)

\* the fields of s that runs of spaces separate (a space of a strptime
\* format matches \s+)
Words(s) == SelectSeq(SplitOn(s, " "), LAMBDA w : w # <<>>)

NoEdgeSpace(s) == s # <<>> /\ s[1] # " " /\ s[Len(s)] # " "

\* a field of one or two digits
ShortNumber(s) == Len(s) \in {1, 2} /\ AllDigits(s)

WeekdayNames ==
    {<<"m","o","n","d","a","y">>, <<"t","u","e","s","d","a","y">>, <<"w","e","d","n","e","s","d","a","y">>, <<"t","h","u","r","s","d","a","y">>, <<"f","r","i","d","a","y">>, <<"s","a","t","u","r","d","a","y">>, <<"s","u","n","d","a","y">>}

MonthNames ==
    <<<<"j","a","n","u","a","r","y">>, <<"f","e","b","r","u","a","r","y">>, <<"m","a","r","c","h">>, <<"a","p","r","i","l">>, <<"m","a","y">>, <<"j","u","n","e">>, <<"j","u","l","y">>, <<"a","u","g","u","s","t">>,
      <<"s","e","p","t","e","m","b","e","r">>, <<"o","c","t","o","b","e","r">>, <<"n","o","v","e","m","b","e","r">>, <<"d","e","c","e","m","b","e","r">>>>

IsLeap(y) == (y % 4 = 0 /\ y % 100 # 0) \/ y % 400 = 0

DaysInMonth(y, m) ==
    IF m = 2 THEN (IF IsLeap(y) THEN 29 ELSE 28)
    ELSE IF m \in {4, 6, 9, 11} THEN 30 ELSE 31

\* what strptime gives when it raises ValueError
NoDateTime == [valid |-> FALSE, year |-> 0, month |-> 0, day |-> 0, hour |-> 0, minute |-> 0, second |-> 0]

\* datetime.strptime(s, "Coburg Tennis Club %A, %d %B %Y %I:%M %p"); the
\* match ignores case, and the weekday is read but not checked against the
\* date.
StrptimeSession(s) ==
    LET w == Words(Fold(s))
    IN  IF ~(NoEdgeSpace(s) /\ Len(w) = 9) THEN NoDateTime
        ELSE LET hm == SplitOn(w[8], ":")
             IN  IF /\ w[1] = <<"c","o","b","u","r","g">> /\ w[2] = <<"t","e","n","n","i","s">> /\ w[3] = <<"c","l","u","b">>
                    /\ \E d \in WeekdayNames : w[4] = d \o <<",">>
                    /\ ShortNumber(w[5])
                    /\ \E m \in 1..12 : MonthNames[m] = w[6]
                    /\ Len(w[7]) = 4 /\ AllDigits(w[7]) /\ Nat10(w[7]) >= 1
                    /\ Len(hm) = 2 /\ ShortNumber(hm[1]) /\ ShortNumber(hm[2])
                    /\ Nat10(hm[1]) \in 1..12 /\ Nat10(hm[2]) \in 0..59
                    /\ w[9] \in {<<"a","m">>, <<"p","m">>}
                 THEN LET year == Nat10(w[7])
                          month == CHOOSE m \in 1..12 : MonthNames[m] = w[6]
                          day == Nat10(w[5])
                      IN  IF day \in 1..DaysInMonth(year, month)
                          THEN [valid |-> TRUE, year |-> year, month |-> month, day |-> day,
                                hour |-> (Nat10(hm[1]) % 12) + (IF w[9] = <<"p","m">> THEN 12 ELSE 0),
                                minute |-> Nat10(hm[2]), second |-> 0]
                          ELSE NoDateTime
                 ELSE NoDateTime

\* datetime.strptime(s, "%Y-%m-%d %H:%M:%S")
StrptimeBooking(s) ==
    LET w == Words(s)
    IN  IF ~(NoEdgeSpace(s) /\ Len(w) = 2) THEN NoDateTime
        ELSE LET ymd == SplitOn(w[1], "-")
                 hms == SplitOn(w[2], ":")
             IN  IF /\ Len(ymd) = 3 /\ Len(hms) = 3
                    /\ Len(ymd[1]) = 4 /\ AllDigits(ymd[1]) /\ Nat10(ymd[1]) >= 1
                    /\ ShortNumber(ymd[2]) /\ Nat10(ymd[2]) \in 1..12
                    /\ ShortNumber(ymd[3])
                    /\ Nat10(ymd[3]) \in 1..DaysInMonth(Nat10(ymd[1]), Nat10(ymd[2]))
                    /\ ShortNumber(hms[1]) /\ Nat10(hms[1]) \in 0..23
                    /\ ShortNumber(hms[2]) /\ Nat10(hms[2]) \in 0..59
                    /\ ShortNumber(hms[3]) /\ Nat10(hms[3]) \in 0..59
                 THEN [valid |-> TRUE, year |-> Nat10(ymd[1]), month |-> Nat10(ymd[2]),
                       day |-> Nat10(ymd[3]), hour |-> Nat10(hms[1]), minute |-> Nat10(hms[2]),
                       second |-> Nat10(hms[3])]
                 ELSE NoDateTime

\* ------------------------------------------------------------------------
\* The rows of the two CSV files (csv.DictReader: every field is a str)

\* A Clubspark booking row.  PlayerFirstName is 'Player First Name', and so
\* on for the other columns.
BookingRow(first, last, booked, fees, time) ==
    [PlayerFirstName |-> first, PlayerLastName |-> last, BookedDate |-> booked,
     CourtFee |-> fees[1], LightFee |-> fees[2], TotalFee |-> fees[3],
     BookingDate |-> booked, BookingTime |-> time]

BookingRows ==
    {BookingRow(<<"J","a","n","e">>, <<"D","o","e">>, <<"2","0","2","1","-","1","0","-","1","9">>, f, <<"1","7",":","0","0",":","0","0">>) :
        f \in {<<<<"2","0",".","0","0">>, <<"5",".","0","0">>, <<"2","5",".","0","0">>>>, <<<<"0",".","0","0">>, <<"0",".","0","0">>, <<"0",".","0","0">>>>}}
    \cup {BookingRow(<<"J","o","h","n">>, <<"S","m","i","t","h">>, <<"2","0","2","1","-","1","0","-","2","0">>, <<<<"0",".","0","0">>, <<"5",".","0","0">>, <<"5",".","0","0">>>>, <<"1","0",":","3","0",":","0","0">>),
          BookingRow(<<>>, <<>>, <<"2","0","2","1","-","1","0","-","2","0">>, <<<<"-","5",".","0","0">>, <<"0",".","0","0">>, <<"-","5",".","0","0">>>>, <<"1","0",":","3","0",":","0","0">>)}

\* A Stripe settlement row.  FirstName_1..3 are 'First name (metadata)',
\* 'First Name (metadata)' and 'FirstName (metadata)'; LastName_1..3 are
\* 'Last name (metadata)', 'Last Name (metadata)' and 'Surname (metadata)'.
\* The contact id and the phone numbers are read and never used.
SettlementRow(description, type, money, who, on, meta) ==
    [Description |-> description, Type |-> type,
     Amount |-> money[1], Fee |-> money[2], Net |-> money[3],
     FirstName_1 |-> who[1], FirstName_2 |-> <<>>, FirstName_3 |-> <<>>,
     LastName_1 |-> <<>>, LastName_2 |-> <<>>, LastName_3 |-> who[2],
     Email |-> who[3], AvailableOn |-> on,
     Session |-> meta[1], Membership |-> meta[2], Category |-> meta[3], CourseName |-> meta[4]]

NoMeta == <<<<>>, <<>>, <<>>, <<>>>>
Jane == <<<<"J","a","n","e">>, <<"D","o","e">>, <<"j","a","n","e","@","x",".","i","o">>>>
John == <<<<"J","o","h","n">>, <<"S","m","i","t","h">>, <<"j","o","h","n","@","x",".","i","o">>>>
Nobody == <<<<>>, <<>>, <<>>>>

CourtRows ==
    {SettlementRow(COURT_BOOKING, <<"c","h","a","r","g","e">>, <<<<"2","5",".","0","0">>, <<"1",".","2","0">>, <<"2","3",".","8","0">>>>, Jane, <<"2","0","2","1","-","1","0","-","2","1"," ","0","0",":","0","0">>, NoMeta),
     SettlementRow(COURT_BOOKING, <<"c","h","a","r","g","e">>, <<<<"0",".","0","0">>, <<>>, <<"0",".","0","0">>>>, Jane, <<"2","0","2","1","-","1","0","-","2","1"," ","0","0",":","0","0">>, NoMeta),
     SettlementRow(COURT_BOOKING, <<"p","a","y","o","u","t">>, <<<<"2","5",".","0","0">>, <<>>, <<"2","5",".","0","0">>>>, John, <<"2","0","2","1","-","1","0","-","2","2"," ","0","0",":","0","0">>, NoMeta)}

PayoutRows ==
    {SettlementRow(STRIPE_PAYOUT, <<"p","a","y","o","u","t">>, <<<<"5","0","0",".","0","0">>, <<>>, <<"5","0","0",".","0","0">>>>, Nobody, <<"2","0","2","1","-","1","0","-","2","2"," ","0","0",":","0","0">>, NoMeta),
     SettlementRow(<<"R","E","F","U","N","D"," ","F","O","R"," ","C","H","A","R","G","E"," ","(","P","a","y","o","u","t",")">>, <<"p","a","y","o","u","t">>, <<<<"-","2","5",".","0","0">>, <<>>, <<"-","2","5",".","0","0">>>>, Jane,
                   <<"2","0","2","1","-","1","0","-","2","1"," ","0","0",":","0","0">>, NoMeta)}

RefundRows ==
    {SettlementRow(<<"R","E","F","U","N","D"," ","F","O","R"," ","C","H","A","R","G","E"," ","(","C","o","u","r","t"," ","b","o","o","k","i","n","g"," ","a","t"," ","C","o","b","u","r","g"," ","T","e","n","n","i","s"," ","C","l","u","b",")">>, <<"r","e","f","u","n","d">>,
                   <<<<"2","5",".","0","0">>, <<>>, <<"2","5",".","0","0">>>>, Jane, <<"2","0","2","1","-","1","0","-","2","2"," ","0","0",":","0","0">>,
                   <<<<"C","o","b","u","r","g"," ","T","e","n","n","i","s"," ","C","l","u","b"," ","T","u","e","s","d","a","y",","," ","1","9"," ","O","c","t","o","b","e","r"," ","2","0","2","1"," ","5",":","0","0"," ","P","M">>, <<>>, <<>>, <<>>>>),
     SettlementRow(REFUND_PREFIX \o <<" ","(">> \o COURT_BOOKING \o <<")">>, <<"r","e","f","u","n","d">>,
                   <<<<"5",".","0","0">>, <<>>, <<"5",".","0","0">>>>, John, <<"2","0","2","1","-","1","0","-","2","2"," ","0","0",":","0","0">>,
                   <<<<"C","o","b","u","r","g"," ","T","e","n","n","i","s"," ","C","l","u","b"," ","W","e","d","n","e","s","d","a","y",","," ","2","0"," ","O","c","t","o","b","e","r"," ","2","0","2","1"," ","1","0",":","3","0"," ","A","M">>, <<>>, <<>>, <<>>>>)}
    \cup {SettlementRow(REFUND_PREFIX \o <<" ","(">> \o item \o <<")">>, <<"r","e","f","u","n","d">>,
                        <<<<"-","5","0",".","0","0">>, <<>>, <<"-","5","0",".","0","0">>>>, Nobody, <<"2","0","2","1","-","1","0","-","2","2"," ","0","0",":","0","0">>, NoMeta) :
             item \in {<<"C","o","b","u","r","g"," ","T","e","n","n","i","s"," ","C","l","u","b",":"," ","2","0","2","1"," ","S","o","c","i","a","l"," ","M","e","m","b","e","r","s","h","i","p">>,
                       <<"C","o","b","u","r","g"," ","T","e","n","n","i","s"," ","C","l","u","b"," ","M","e","m","b","e","r","s","h","i","p","s",":","S","o","c","i","a","l",","," ",".",".",".">>}}

MembershipRows ==
    {SettlementRow(<<"C","o","b","u","r","g"," ","T","e","n","n","i","s"," ","C","l","u","b",":"," ","2","0","2","1"," ","J","u","n","i","o","r"," ","M","e","m","b","e","r","s","h","i","p">>, <<"c","h","a","r","g","e">>,
                   <<<<"5","0",".","0","0">>, <<"1",".","2","0">>, <<"4","8",".","8","0">>>>, Nobody, <<"2","0","2","1","-","1","0","-","2","1"," ","0","0",":","0","0">>,
                   <<<<>>, <<"2","0","2","1"," ","J","u","n","i","o","r"," ","M","e","m","b","e","r","s","h","i","p",","," ","I","D",":"," ","1",","," ","C","u","s","t","o","m","e","r",":"," ","A","l"," ","V","o",","," ","a","l","@","x",".","i","o",","," ","C","u","s","t","o","m","e","r"," ","I","D",":","7">>, <<>>, <<>>>>)}

EventRows ==
    {SettlementRow(<<"C","o","b","u","r","g"," ","T","e","n","n","i","s"," ","C","l","u","b"," ","M","e","n","s","S","o","c","i","a","l"," ","N","i","g","h","t">>, <<"c","h","a","r","g","e">>,
                   <<<<"1","0",".","0","0">>, <<"0",".","5","0">>, <<"9",".","5","0">>>>, John, <<"2","0","2","1","-","1","0","-","2","1"," ","0","0",":","0","0">>,
                   <<<<>>, <<>>, <<"C","u","s","t","o","m">>, <<"M","e","n","s","S","o","c","i","a","l"," ","N","i","g","h","t">>>>)}

OtherRows ==
    {SettlementRow(<<"D","o","n","a","t","i","o","n">>, <<"c","h","a","r","g","e">>, <<<<"5",".","0","0">>, <<>>, <<"5",".","0","0">>>>, Jane, <<"2","0","2","1","-","1","0","-","2","2"," ","0","0",":","0","0">>, NoMeta)}

SettlementRows ==
    CourtRows \cup PayoutRows \cup RefundRows \cup MembershipRows \cup EventRows \cup OtherRows

\* ------------------------------------------------------------------------
\* State
VARIABLES
    pc,           \* "import", "reconcile", "saved", or "raised" after an uncaught exception
    error,        \* the exception that ended the run ("" if none)
    rows,         \* the booking rows read so far, with the keys EnterBacInvoices adds
    cs_map,       \* the allocation index: a dict, in insertion order, of key -> list of rows
    invoices,     \* the ledger's invoices
    txns,         \* the ledger's transactions
    customers,    \* the ledger's customers
    player_list,  \* ProcessStripePayments' local variable, unbound until first assigned
    row,          \* the settlement row of the current iteration
    n_rows,       \* the number of settlement rows read
    handler,      \* the branch of ProcessStripePayments the current row took
    applied_to,   \* the booking row the current row's payment was applied to (0: none)
    printed       \* the number of diagnostics printed

vars ==
    <<pc, error, rows, cs_map, invoices, txns, customers, player_list, row, n_rows, handler,
      applied_to, printed>>

ledger == <<invoices, txns, customers>>

\* date.today(), which the ledger gives an invoice opened without a date
Today == [year |-> 0, month |-> 0, day |-> 0]

NoRow == SettlementRow(<<>>, <<>>, <<<<>>, <<>>, <<>>>>, Nobody, <<>>, NoMeta)

Init ==
    /\ pc = "import"
    /\ error = ""
    /\ rows = <<>>
    /\ cs_map = <<[key |-> NO_NAME_ENTRY, list |-> <<>>]>>
    /\ invoices = <<>>
    /\ txns = <<>>
    /\ customers = <<[name |-> GetBookACourtCustomer, email |-> <<>>]>>
    /\ player_list = [bound |-> FALSE, key |-> <<>>]
    /\ row = NoRow
    /\ n_rows = 0
    /\ handler = ""
    /\ applied_to = 0
    /\ printed = 0

\* ------------------------------------------------------------------------
\* dict operations on cs_map
HasKey(map, key) == \E i \in 1..Len(map) : map[i].key = key

KeyIndex(map, key) == CHOOSE i \in 1..Len(map) : map[i].key = key

Lookup(map, key) == map[KeyIndex(map, key)].list

\* the rows of every bucket, in the order `for key in cs_map: for cs_row in l` visits them
RECURSIVE AllBucketRows(_)
AllBucketRows(map) ==
    IF map = <<>> THEN <<>> ELSE Head(map).list \o AllBucketRows(Tail(map))

\* ------------------------------------------------------------------------
\* Ledger operations (the gnucash bindings)

\* Invoice(...), its Entry objects, and PostToAccount
NewInvoice(owner, opened, entries, credit_note, post_date) ==
    [owner |-> owner, date_opened |-> opened, entries |-> entries, is_credit_note |-> credit_note,
     posted_to |-> GetReceivablesAcct, post_date |-> post_date, due_date |-> post_date,
     payments |-> <<>>]

NewEntry(description, price, acct) ==
    [description |-> description, quantity |-> 1, price |-> price, acct |-> acct]

\* invoice.ApplyPayment(trans, xfer_acct, amount, ...): the payment is
\* recorded on the invoice, and the transaction gets the split that takes
\* the amount off the account the invoice is posted to.
InvoiceWithPayment(invs, i, t, amount) ==
    [invs EXCEPT ![i].payments = Append(@, [txn |-> t, amount |-> amount, xfer |-> GetStripeAcct])]

TxnWithPayment(ts, t, invs, i, amount) ==
    [ts EXCEPT ![t].splits = Append(@, [acct |-> invs[i].posted_to, value |-> 0 - amount])]

\* ------------------------------------------------------------------------
\* EnterBacInvoices: one iteration of `for row in cs_csv`

\* row['Player First Name'] + ' ' + row['Player Last Name']
BookingPlayerName(r) == r.PlayerFirstName \o <<" ">> \o r.PlayerLastName

\* lines 66-70: the row joins the bucket of its player name
AddToBucket(map, player_name, idx) ==
    IF HasKey(map, player_name)
    THEN [map EXCEPT ![KeyIndex(map, player_name)].list = Append(@, idx)]
    ELSE Append(map, [key |-> player_name, list |-> <<idx>>])

\* lines 83-84: a row without a fee gets no invoice
NoFee(r) == Decimal(r.CourtFee) = 0 /\ Decimal(r.LightFee) = 0

\* lines 94-106 with the light-hire line priced at the court fee
BacEntries_LightAtCourtFee(r) ==
    (IF Decimal(r.CourtFee) > 0
     THEN <<NewEntry(<<"C","o","u","r","t"," ","H","i","r","e">>, GncNumeric(r.CourtFee), GetCourtHireAcct)>> ELSE <<>>)
    \o (IF Decimal(r.LightFee) > 0
        THEN <<NewEntry(<<"L","i","g","h","t"," ","H","i","r","e">>, GncNumeric(r.CourtFee), GetLightHireAcct)>> ELSE <<>>)

\* lines 94-106: the entries of a booking row's invoice
BacEntries(r) ==
    (IF Decimal(r.CourtFee) > 0
     THEN <<NewEntry(<<"C","o","u","r","t"," ","H","i","r","e">>, GncNumeric(r.CourtFee), GetCourtHireAcct)>> ELSE <<>>)
    \o (IF Decimal(r.LightFee) > 0
        THEN <<NewEntry(<<"L","i","g","h","t"," ","H","i","r","e">>, GncNumeric(r.LightFee), GetLightHireAcct)>> ELSE <<>>)

\* the row as it stands in `rows`: Annotated says whether the keys
\* 'Invoice' and 'Allocated' were added (lines 111-112)
Unannotated(r) ==
    [PlayerFirstName |-> r.PlayerFirstName, PlayerLastName |-> r.PlayerLastName,
     BookedDate |-> r.BookedDate, CourtFee |-> r.CourtFee, LightFee |-> r.LightFee,
     TotalFee |-> r.TotalFee, BookingDate |-> r.BookingDate, BookingTime |-> r.BookingTime,
     Annotated |-> FALSE, Invoice |-> 0, Allocated |-> FALSE]

Raise(e) == pc' = "raised" /\ error' = e

EnterBacInvoicesRow(r) ==
    /\ pc = "import"
    /\ Len(rows) < MaxBookings
    /\ LET idx == Len(rows) + 1
           player_name == BookingPlayerName(r)
       IN  IF player_name = <<>>
           THEN \* line 72: 'CS: No name for row: ' + row, a str plus a dict
                /\ Raise("TypeError")
                /\ UNCHANGED <<rows, cs_map, invoices>>
           ELSE /\ cs_map' = AddToBucket(cs_map, player_name, idx)
                /\ IF ~IsIsoDate(r.BookedDate)
                   THEN /\ Raise("ValueError")
                        /\ rows' = Append(rows, Unannotated(r))
                        /\ UNCHANGED invoices
                   ELSE IF NoFee(r)
                   THEN /\ rows' = Append(rows, Unannotated(r))
                        /\ UNCHANGED <<pc, error, invoices>>
                   ELSE /\ invoices' = Append(invoices,
                                              NewInvoice(GetBookACourtCustomer, FromIsoFormat(r.BookedDate),
                                                         BacEntries(r), FALSE, FromIsoFormat(r.BookedDate)))
                        /\ rows' = Append(rows, [Unannotated(r) EXCEPT !.Annotated = TRUE,
                                                                       !.Invoice = Len(invoices) + 1])
                        /\ UNCHANGED <<pc, error>>
    /\ UNCHANGED <<txns, customers, player_list, row, n_rows, handler, applied_to, printed>>

\* the end of cs_csv: EnterBacInvoices returns cs_map
EnterBacInvoicesReturn ==
    /\ pc = "import"
    /\ pc' = "reconcile"
    /\ UNCHANGED <<error, rows, cs_map, invoices, txns, customers, player_list, row, n_rows,
                   handler, applied_to, printed>>

\* ------------------------------------------------------------------------
\* The helpers of ProcessStripePayments

\* MakeStripePayment: a transaction with the one split on the Stripe account
MakeStripePayment(ts, amount, description, txn_date) ==
    Append(ts, [date |-> txn_date, description |-> description,
                splits |-> <<[acct |-> GetStripeAcct, value |-> GncNumeric(amount)]>>])

\* DoStripeTransfer without split2
DoStripeTransfer_OneSided(ts, amount, txn_date) ==
    Append(ts, [date |-> txn_date, description |-> <<"S","t","r","i","p","e"," ","P","a","y","o","u","t">>,
                splits |-> <<[acct |-> GetStripeAcct, value |-> GncNumeric(amount)]>>])

\* DoStripeTransfer: split1 on the Stripe account, split2 on the checking account
DoStripeTransfer(ts, amount, txn_date) ==
    Append(ts, [date |-> txn_date, description |-> <<"S","t","r","i","p","e"," ","P","a","y","o","u","t">>,
                splits |-> <<[acct |-> GetStripeAcct, value |-> GncNumeric(amount)],
                             [acct |-> GetCheckingAcct, value |-> 0 - GncNumeric(amount)]>>])

\* RecordStripeFee: nothing for an empty fee; else the Stripe split becomes
\* the net amount and a fee split is added
RecordStripeFee(ts, t, net, fee) ==
    IF fee = <<>> THEN ts
    ELSE [ts EXCEPT ![t].splits =
             Append([i \in 1..Len(@) |->
                        IF @[i].acct = GetStripeAcct THEN [@[i] EXCEPT !.value = GncNumeric(net)] ELSE @[i]],
                    [acct |-> GetStripeFeeAcct, value |-> GncNumeric(fee)])]

\* GetCustomer: the first customer of that name, or a new one
HasCustomer(cs, name) == \E i \in 1..Len(cs) : cs[i].name = name

GetCustomer(cs, name, email) ==
    IF HasCustomer(cs, name) THEN cs ELSE Append(cs, [name |-> name, email |-> email])

\* CreateInvoiceAndPayment: the ledger after it, as <<invoices, txns>>
CreateInvoiceAndPayment(invs, ts, customer, acct, amount, fee, net, description, txn_date) ==
    LET i == Len(invs) + 1
        t == Len(ts) + 1
        invs1 == Append(invs, NewInvoice(customer, Today,
                                         <<NewEntry(description, GncNumeric(amount), acct)>>,
                                         FALSE, txn_date))
        ts1 == MakeStripePayment(ts, amount, description, txn_date)
    IN  <<InvoiceWithPayment(invs1, i, t, GncNumeric(amount)),
          RecordStripeFee(TxnWithPayment(ts1, t, invs1, i, GncNumeric(amount)), t, net, fee)>>

\* lines 233-243: the first of the three name columns that is not empty
FirstName(r) ==
    IF r.FirstName_1 # <<>> THEN r.FirstName_1
    ELSE IF r.FirstName_2 # <<>> THEN r.FirstName_2 ELSE r.FirstName_3

LastName(r) ==
    IF r.LastName_1 # <<>> THEN r.LastName_1
    ELSE IF r.LastName_2 # <<>> THEN r.LastName_2 ELSE r.LastName_3

\* lines 246-248
PlayerName(r) ==
    LET player_name == FirstName(r) \o <<" ">> \o LastName(r)
    IN  IF player_name = <<>> THEN NO_NAME_ENTRY ELSE player_name

\* lines 250-251: player_list is assigned only when the name has a bucket
PlayerListAfter(pl, map, player_name) ==
    IF HasKey(map, player_name) THEN [bound |-> TRUE, key |-> player_name] ELSE pl

\* lines 261-266
TxnDate(r) == FromIsoFormat(SplitFirst(r.AvailableOn))

\* line 277: amount == 0, where amount is the str of the CSV field
AmountIsZero(amount) == PyEq(PyStr(amount), PyInt(0))

\* lines 277-424 with the payout test ahead of the court-booking test
Handler_PayoutFirst(r) ==
    IF AmountIsZero(r.Amount) THEN "skipped"
    ELSE IF r.Type = <<"p","a","y","o","u","t">> THEN "payout"
    ELSE IF r.Description = COURT_BOOKING THEN "court"
    ELSE IF StartsWith(r.Description, REFUND_PREFIX) THEN "refund"
    ELSE IF StartsWith(r.Description, MEMBERSHIP_PREFIX) THEN "membership"
    ELSE IF StartsWith(r.Description, EVENT_PREFIX) THEN "event"
    ELSE "none"

\* lines 277-424: the branch a row takes
Handler(r) ==
    IF AmountIsZero(r.Amount) THEN "skipped"
    ELSE IF r.Description = COURT_BOOKING THEN "court"
    ELSE IF r.Type = <<"p","a","y","o","u","t">> THEN "payout"
    ELSE IF StartsWith(r.Description, REFUND_PREFIX) THEN "refund"
    ELSE IF StartsWith(r.Description, MEMBERSHIP_PREFIX) THEN "membership"
    ELSE IF StartsWith(r.Description, EVENT_PREFIX) THEN "event"
    ELSE "none"

\* line 291 without `and not player_row['Allocated']`
RowMatches_IgnoresAllocated(player_row, amount) == player_row.TotalFee = amount

\* line 291: the test that ends the scan of player_list at player_row,
\* either by applying the payment or, for a row without the key
\* 'Allocated', by KeyError
RowMatches(player_row, amount) ==
    player_row.TotalFee = amount /\ (~player_row.Annotated \/ ~player_row.Allocated)

\* the position in list of the first row the scan stops at (0: none)
FirstMatch(list, rs, amount) ==
    IF \E p \in 1..Len(list) : RowMatches(rs[list[p]], amount)
    THEN CHOOSE p \in 1..Len(list) :
            RowMatches(rs[list[p]], amount) /\ \A q \in 1..(p - 1) : ~RowMatches(rs[list[q]], amount)
    ELSE 0

\* what every iteration does before it branches (lines 224-281)
ReadRow(r) ==
    /\ pc = "reconcile"
    /\ n_rows < MaxSettlements
    /\ IsIsoDate(SplitFirst(r.AvailableOn))
    /\ row' = r
    /\ n_rows' = n_rows + 1
    /\ handler' = Handler(r)
    /\ player_list' = PlayerListAfter(player_list, cs_map, PlayerName(r))

\* ------------------------------------------------------------------------
\* ProcessStripePayments: one iteration of `for row in stripe_csv`, by branch

\* lines 283-300
CourtPayment(r) ==
    /\ ReadRow(r)
    /\ Handler(r) = "court"
    /\ LET t == Len(txns) + 1
           ts1 == MakeStripePayment(txns, r.Amount, r.Description, TxnDate(r))
           pl == PlayerListAfter(player_list, cs_map, PlayerName(r))
           list == IF pl.bound THEN Lookup(cs_map, pl.key) ELSE <<>>
           p == FirstMatch(list, rows, r.Amount)
       IN  IF ~pl.bound
           THEN \* line 290 reads player_list, which no row has assigned yet
                /\ Raise("UnboundLocalError")
                /\ txns' = ts1
                /\ applied_to' = 0
                /\ UNCHANGED <<rows, invoices, printed>>
           ELSE IF p = 0
           THEN /\ IF list = <<>>
                   THEN \* line 299 reads player_row, which the empty loop never assigned
                        Raise("UnboundLocalError") /\ UNCHANGED printed
                   ELSE printed' = printed + 1 /\ UNCHANGED <<pc, error>>
                /\ txns' = ts1
                /\ applied_to' = 0
                /\ UNCHANGED <<rows, invoices>>
           ELSE IF ~rows[list[p]].Annotated
           THEN \* line 291 reads player_row['Allocated'] of a row that got no invoice
                /\ Raise("KeyError")
                /\ txns' = ts1
                /\ applied_to' = 0
                /\ UNCHANGED <<rows, invoices, printed>>
           ELSE /\ invoices' = InvoiceWithPayment(invoices, rows[list[p]].Invoice, t, GncNumeric(r.Amount))
                /\ txns' = RecordStripeFee(TxnWithPayment(ts1, t, invoices, rows[list[p]].Invoice,
                                                          GncNumeric(r.Amount)),
                                           t, r.Net, r.Fee)
                /\ rows' = [rows EXCEPT ![list[p]].Allocated = TRUE]
                /\ applied_to' = list[p]
                /\ UNCHANGED <<pc, error, printed>>
    /\ UNCHANGED <<cs_map, customers>>

\* lines 302-304
Payout(r) ==
    /\ ReadRow(r)
    /\ Handler(r) = "payout"
    /\ txns' = DoStripeTransfer(txns, r.Amount, TxnDate(r))
    /\ applied_to' = 0
    /\ UNCHANGED <<pc, error, rows, cs_map, invoices, customers, printed>>

\* lines 325-336: the fees of the last booking row, over all buckets, whose
\* booking time is the refunded session's and whose total is the amount.
\* raised: a booking row's date and time do not parse (ValueError).
RefundFees(map, rs, session, amount) ==
    LET booking_datetime == StrptimeSession(session)
        all == AllBucketRows(map)
        when(k) == StrptimeBooking(rs[all[k]].BookingDate \o <<" ">> \o rs[all[k]].BookingTime)
        hits == {k \in 1..Len(all) : when(k) = booking_datetime /\ rs[all[k]].TotalFee = amount}
    IN  IF ~booking_datetime.valid
        THEN [raised |-> FALSE, found |-> FALSE, court_fee |-> <<>>, light_fee |-> <<>>]
        ELSE IF \E k \in 1..Len(all) : ~when(k).valid
        THEN [raised |-> TRUE, found |-> FALSE, court_fee |-> <<>>, light_fee |-> <<>>]
        ELSE IF hits = {}
        THEN [raised |-> FALSE, found |-> FALSE, court_fee |-> <<>>, light_fee |-> <<>>]
        ELSE LET k == CHOOSE h \in hits : \A g \in hits : h >= g
             IN  [raised |-> FALSE, found |-> TRUE,
                  court_fee |-> rs[all[k]].CourtFee, light_fee |-> rs[all[k]].LightFee]

\* lines 338-360: the entries of the credit note; `if court_fee:` holds for
\* every str that is not empty
CreditNoteEntries(fees, amount) ==
    LET court_fee == IF fees.found THEN fees.court_fee ELSE amount
        light_fee == IF fees.found THEN fees.light_fee ELSE <<>>
    IN  (IF court_fee # <<>>
         THEN <<NewEntry(<<"C","o","u","r","t"," ","H","i","r","e"," ","R","e","f","u","n","d">>, GncNumeric(court_fee), GetCourtHireAcct)>> ELSE <<>>)
        \o (IF light_fee # <<>>
            THEN <<NewEntry(<<"L","i","g","h","t"," ","H","i","r","e"," ","R","e","f","u","n","d">>, GncNumeric(light_fee), GetLightHireAcct)>> ELSE <<>>)

\* lines 314-382
RefundCourt(r) ==
    /\ ReadRow(r)
    /\ Handler(r) = "refund"
    /\ RefundItem(r.Description) = COURT_BOOKING
    /\ LET fees == RefundFees(cs_map, rows, r.Session, r.Amount)
           i == Len(invoices) + 1
           t == Len(txns) + 1
           invs1 == Append(invoices, NewInvoice(GetBookACourtCustomer, TxnDate(r),
                                                CreditNoteEntries(fees, r.Amount), TRUE, TxnDate(r)))
           ts1 == MakeStripePayment(txns, r.Amount, <<"B","o","o","k"," ","A"," ","C","o","u","r","t"," ","R","e","f","u","n","d">>, TxnDate(r))
       IN  IF fees.raised
           THEN Raise("ValueError") /\ UNCHANGED <<invoices, txns>>
           ELSE /\ invoices' = InvoiceWithPayment(invs1, i, t, GncNumeric(r.Amount))
                /\ txns' = RecordStripeFee(TxnWithPayment(ts1, t, invs1, i, GncNumeric(r.Amount)),
                                           t, r.Net, r.Fee)
                /\ UNCHANGED <<pc, error>>
    /\ applied_to' = 0
    /\ UNCHANGED <<rows, cs_map, customers, printed>>

\* lines 385-389 without the membership test
RefundAcct_AlwaysEvent(refund_item) == GetEventAcct(refund_item)

\* lines 385-389: the account a refund that is not a court booking's goes to
RefundAcct(refund_item) ==
    IF ReSearch(MEMBERSHIP_PREFIX, refund_item)
    THEN GetMembershipAcct(refund_item)
    ELSE GetEventAcct(refund_item)

\* lines 383-405
RefundOther(r) ==
    /\ ReadRow(r)
    /\ Handler(r) = "refund"
    /\ RefundItem(r.Description) # COURT_BOOKING
    /\ txns' = Append(txns, [date |-> TxnDate(r), description |-> <<"R","e","f","u","n","d">>,
                             splits |-> <<[acct |-> GetStripeAcct, value |-> GncNumeric(r.Amount)],
                                          [acct |-> RefundAcct(RefundItem(r.Description)),
                                           value |-> 0 - GncNumeric(r.Amount)]>>])
    /\ applied_to' = 0
    /\ UNCHANGED <<pc, error, rows, cs_map, invoices, customers, printed>>

\* lines 407-422
MembershipPayment(r) ==
    /\ ReadRow(r)
    /\ Handler(r) = "membership"
    /\ LET customer_name == CustomerName(r.Membership)
           made == CreateInvoiceAndPayment(invoices, txns, customer_name,
                                           GetMembershipAcct(r.Membership), r.Amount, r.Fee, r.Net,
                                           MembershipItem(r.Description), TxnDate(r))
       IN  /\ customers' = GetCustomer(customers, customer_name, CustomerEmail(r.Membership))
           /\ invoices' = made[1]
           /\ txns' = made[2]
    /\ applied_to' = 0
    /\ UNCHANGED <<pc, error, rows, cs_map, printed>>

\* lines 429-431
EventDetail(r) == IF r.Category = <<"C","u","s","t","o","m">> THEN r.CourseName ELSE r.Category

\* lines 424-436
EventPayment(r) ==
    /\ ReadRow(r)
    /\ Handler(r) = "event"
    /\ LET made == CreateInvoiceAndPayment(invoices, txns, PlayerName(r), GetEventAcct(EventDetail(r)),
                                           r.Amount, r.Fee, r.Net, EventDetail(r), TxnDate(r))
       IN  /\ customers' = GetCustomer(customers, PlayerName(r), r.Email)
           /\ invoices' = made[1]
           /\ txns' = made[2]
    /\ applied_to' = 0
    /\ UNCHANGED <<pc, error, rows, cs_map, printed>>

\* line 278 (`continue`), or no branch of the if/elif chain
NoBranch(r) ==
    /\ ReadRow(r)
    /\ Handler(r) \in {"skipped", "none"}
    /\ applied_to' = 0
    /\ UNCHANGED <<pc, error, rows, cs_map, invoices, txns, customers, printed>>

\* the end of stripe_csv, and s.save()
Save ==
    /\ pc = "reconcile"
    /\ pc' = "saved"
    /\ UNCHANGED <<error, rows, cs_map, invoices, txns, customers, player_list, row, n_rows,
                   handler, applied_to, printed>>

Next ==
    \/ \E r \in BookingRows : EnterBacInvoicesRow(r)
    \/ EnterBacInvoicesReturn
    \/ \E r \in SettlementRows : CourtPayment(r)
    \/ \E r \in SettlementRows : Payout(r)
    \/ \E r \in SettlementRows : RefundCourt(r)
    \/ \E r \in SettlementRows : RefundOther(r)
    \/ \E r \in SettlementRows : MembershipPayment(r)
    \/ \E r \in SettlementRows : EventPayment(r)
    \/ \E r \in SettlementRows : NoBranch(r)
    \/ Save

Spec == Init /\ [][Next]_vars

\* ------------------------------------------------------------------------
\* Account routing on its own: the booking file is empty, and one event or
\* membership payment is processed whose category text is drawn from
\* RoutingTexts.
RoutingWords ==
    {<<"C","o","b","u","r","g">>, <<"N","i","g","h","t">>, <<"M","e","n","s","S","o","c","i","a","l">>, <<"m","e","n","s","s","o","c","i","a","l">>, <<"B","i","n","g","o">>, <<"B","I","N","G","O">>, <<"G","i","r","l","s">>,
     <<"C","l","u","b"," ","C","h","a","m","p","s">>, <<"O","p","e","n","C","o","u","r","t","S","e","s","s","i","o","n","s">>, <<"J","u","n","i","o","r">>, <<"j","u","n","i","o","r">>, <<"S","o","c","i","a","l">>, <<"S","t","u","d","e","n","t">>,
     <<"S","e","n","i","o","r">>, <<"S","E","N","I","O","R">>}

RoutingTexts ==
    {a \o <<" ">> \o b : a, b \in RoutingWords}
    \cup {<<"C","o","b","u","r","g"," ","T","e","n","n","i","s"," ","C","l","u","b"," ","M","e","n","s","S","o","c","i","a","l"," ","N","i","g","h","t">>, <<"C","o","b","u","r","g"," ","T","e","n","n","i","s"," ","C","l","u","b"," ","F","r","i","d","a","y"," ","B","i","n","g","o"," ","N","i","g","h","t">>,
          <<"C","o","b","u","r","g"," ","T","e","n","n","i","s"," ","C","l","u","b"," ","T","r","i","v","i","a">>}

EventRowFor(text) ==
    SettlementRow(<<"C","o","b","u","r","g"," ","T","e","n","n","i","s"," ","C","l","u","b"," ","E","v","e","n","t">>, <<"c","h","a","r","g","e">>, <<<<"1","0",".","0","0">>, <<"0",".","5","0">>, <<"9",".","5","0">>>>, John,
                  <<"2","0","2","1","-","1","0","-","2","1"," ","0","0",":","0","0">>, <<<<>>, <<>>, text, <<>>>>)

MembershipRowFor(text) ==
    SettlementRow(<<"C","o","b","u","r","g"," ","T","e","n","n","i","s"," ","C","l","u","b",":"," ","M","e","m","b","e","r","s","h","i","p">>, <<"c","h","a","r","g","e">>, <<<<"5","0",".","0","0">>, <<"1",".","2","0">>, <<"4","8",".","8","0">>>>,
                  Nobody, <<"2","0","2","1","-","1","0","-","2","1"," ","0","0",":","0","0">>, <<<<>>, text, <<>>, <<>>>>)

InitRouting ==
    /\ pc = "reconcile"
    /\ error = ""
    /\ rows = <<>>
    /\ cs_map = <<[key |-> NO_NAME_ENTRY, list |-> <<>>]>>
    /\ invoices = <<>>
    /\ txns = <<>>
    /\ customers = <<[name |-> GetBookACourtCustomer, email |-> <<>>]>>
    /\ player_list = [bound |-> FALSE, key |-> <<>>]
    /\ row = NoRow
    /\ n_rows = 0
    /\ handler = ""
    /\ applied_to = 0
    /\ printed = 0

NextRouting ==
    \/ \E text \in RoutingTexts : n_rows = 0 /\ EventPayment(EventRowFor(text))
    \/ \E text \in RoutingTexts : n_rows = 0 /\ MembershipPayment(MembershipRowFor(text))

SpecRouting == InitRouting /\ [][NextRouting]_vars

\* ------------------------------------------------------------------------
\* Properties

Range(s) == {s[i] : i \in 1..Len(s)}

RECURSIVE SumPrices(_)
SumPrices(entries) ==
    IF entries = <<>> THEN 0 ELSE Head(entries).price + SumPrices(Tail(entries))

RECURSIVE SumValues(_)
SumValues(splits) ==
    IF splits = <<>> THEN 0 ELSE Head(splits).value + SumValues(Tail(splits))

\* a step that processes one settlement row: row' is the row, and the
\* unprimed variables are the state it found
SettlementStep == n_rows' = n_rows + 1

\* the step added exactly one transaction / invoice and changed no other
OneNewTxn == Len(txns') = Len(txns) + 1 /\ SubSeq(txns', 1, Len(txns)) = txns
OneNewInvoice == Len(invoices') = Len(invoices) + 1 /\ SubSeq(invoices', 1, Len(invoices)) = invoices

\* the rows of player name's own bucket
OwnBucket(map, name) == IF HasKey(map, name) THEN Range(Lookup(map, name)) ELSE {}

\* the rows a court payment of that player and amount may be applied to
Eligible(map, rs, name, amount) ==
    {k \in OwnBucket(map, name) :
        rs[k].Annotated /\ ~rs[k].Allocated /\ rs[k].TotalFee = amount}

\* C1: every booking invoice created by EnterBacInvoices has had at most one
\* payment applied to it, whatever settlement rows were processed; a second
\* court payment of the same amount is not applied to an allocated row's
\* invoice.
C1_AllocationExclusive ==
    \A k \in 1..Len(rows) :
        rows[k].Annotated =>
            /\ Len(invoices[rows[k].Invoice].payments) <= 1
            /\ rows[k].Allocated <=> Len(invoices[rows[k].Invoice].payments) = 1

\* a second court payment of the amount of an allocated row of the same
\* bucket was processed, and the row's invoice still has its one payment
C1_Witness ==
    /\ handler = "court" /\ n_rows >= 2 /\ applied_to = 0 /\ player_list.bound
    /\ \E k \in Range(Lookup(cs_map, player_list.key)) :
          /\ rows[k].Annotated /\ rows[k].Allocated /\ rows[k].TotalFee = row.Amount
          /\ Len(invoices[rows[k].Invoice].payments) = 1
          /\ Cardinality({t \in 1..Len(txns) : txns[t].description = COURT_BOOKING}) = 2

\* C2: a court payment is applied only to an unallocated row of the
\* settlement row's own player bucket whose total fee is the amount, and is
\* applied (the row becoming allocated) whenever that bucket has such a row.
C2_PaymentToOwnBucket ==
    [][(SettlementStep /\ handler' = "court") =>
          LET eligible == Eligible(cs_map, rows, PlayerName(row'), row'.Amount)
          IN  /\ applied_to' # 0 => applied_to' \in eligible
              /\ eligible # {} =>
                    /\ applied_to' \in eligible
                    /\ rows'[applied_to'].Allocated
                    /\ Len(invoices'[rows[applied_to'].Invoice].payments)
                          = Len(invoices[rows[applied_to'].Invoice].payments) + 1]_vars

\* C3: a booking row with court fee 0 and light fee 0 gets no invoice and is
\* in no bucket of the allocation index.
C3_ZeroFeeRowExcluded ==
    /\ pc = "import" => Len(invoices) = Cardinality({k \in 1..Len(rows) : ~NoFee(rows[k])})
    /\ \A k \in 1..Len(rows) :
          NoFee(rows[k]) =>
              /\ rows[k].Invoice = 0
              /\ \A b \in 1..Len(cs_map) : k \notin Range(cs_map[b].list)

\* the invoice of booking row k is there, is no other row's, and its entries
\* are a court-hire line for a positive court fee and a light-hire line for
\* a positive light fee, summing to court fee + light fee
HasItsInvoice(k) ==
    /\ rows[k].Annotated
    /\ rows[k].Invoice \in 1..Len(invoices)
    /\ \A j \in 1..Len(rows) : (j # k /\ rows[j].Annotated) => rows[j].Invoice # rows[k].Invoice
    /\ LET inv == invoices[rows[k].Invoice]
       IN  /\ inv.owner = GetBookACourtCustomer /\ ~inv.is_credit_note
           /\ SumPrices(inv.entries) = Decimal(rows[k].CourtFee) + Decimal(rows[k].LightFee)
           /\ (\E e \in Range(inv.entries) : e.acct = GetCourtHireAcct) <=> Decimal(rows[k].CourtFee) > 0
           /\ (\E e \in Range(inv.entries) : e.acct = GetLightHireAcct) <=> Decimal(rows[k].LightFee) > 0
           /\ \A e \in Range(inv.entries) :
                 /\ e.quantity = 1
                 /\ e.acct = GetCourtHireAcct => e.price = Decimal(rows[k].CourtFee)
                 /\ e.acct = GetLightHireAcct => e.price = Decimal(rows[k].LightFee)
           /\ Len(inv.entries) <= 2

\* C4, as stated: every booking row whose court fee or light fee is not zero
\* has exactly one invoice, whose entries sum to court fee + light fee.
C4_InvoicePerFeeRow ==
    /\ pc = "import" => Len(invoices) = Cardinality({k \in 1..Len(rows) : rows[k].Annotated})
    /\ \A k \in 1..Len(rows) : ~NoFee(rows[k]) => HasItsInvoice(k)

\* C4, amended: every booking row whose fees are both non-negative and not
\* both zero has exactly one invoice, whose entries (a court-hire line only
\* for a positive court fee, a light-hire line only for a positive light
\* fee) sum to court fee + light fee.
C4_InvoicePerNonNegativeFeeRow ==
    /\ pc = "import" => Len(invoices) = Cardinality({k \in 1..Len(rows) : rows[k].Annotated})
    /\ \A k \in 1..Len(rows) :
          (~NoFee(rows[k]) /\ Decimal(rows[k].CourtFee) >= 0 /\ Decimal(rows[k].LightFee) >= 0)
              => HasItsInvoice(k)

\* a row with a court fee and a light fee has its invoice of two entries
C4_Witness ==
    \E k \in 1..Len(rows) :
        /\ Decimal(rows[k].CourtFee) > 0 /\ Decimal(rows[k].LightFee) > 0
        /\ rows[k].Annotated /\ Len(invoices[rows[k].Invoice].entries) = 2

\* C5: a settlement row whose amount is 0 is skipped: it creates no
\* transaction, invoice or customer and changes no allocated flag.
C5_ZeroAmountSkipped ==
    [][(SettlementStep /\ Decimal(row'.Amount) = 0) =>
          (invoices' = invoices /\ txns' = txns /\ customers' = customers /\ rows' = rows)]_vars

\* the branch the claimed order gives a row: it reads the description and
\* the type only
C6_Expected(description, type) ==
    IF description = COURT_BOOKING THEN "court"
    ELSE IF type = <<"p","a","y","o","u","t">> THEN "payout"
    ELSE IF StartsWith(description, <<"R","E","F","U","N","D"," ","F","O","R"," ","C","H","A","R","G","E">>) THEN "refund"
    ELSE IF StartsWith(description, <<"C","o","b","u","r","g"," ","T","e","n","n","i","s"," ","C","l","u","b",":">>) THEN "membership"
    ELSE IF StartsWith(description, <<"C","o","b","u","r","g"," ","T","e","n","n","i","s"," ","C","l","u","b"," ">>) THEN "event"
    ELSE "none"

\* what the step of each branch, and of no other, does to the ledger
C6_Effect(branch) ==
    IF branch = "court"
    THEN OneNewTxn /\ txns'[Len(txns')].description = COURT_BOOKING /\ Len(invoices') = Len(invoices)
    ELSE IF branch = "payout"
    THEN OneNewTxn /\ txns'[Len(txns')].description = <<"S","t","r","i","p","e"," ","P","a","y","o","u","t">> /\ invoices' = invoices
    ELSE IF branch = "refund"
    THEN \/ error' = "ValueError" /\ UNCHANGED ledger
         \/ OneNewTxn /\ txns'[Len(txns')].description = <<"R","e","f","u","n","d">> /\ invoices' = invoices
         \/ OneNewTxn /\ txns'[Len(txns')].description = <<"B","o","o","k"," ","A"," ","C","o","u","r","t"," ","R","e","f","u","n","d">> /\ OneNewInvoice
               /\ invoices'[Len(invoices')].is_credit_note
    ELSE IF branch = "membership"
    THEN OneNewTxn /\ OneNewInvoice
            /\ invoices'[Len(invoices')].entries[1].acct \in MembershipAccts
    ELSE IF branch = "event"
    THEN OneNewTxn /\ OneNewInvoice
            /\ invoices'[Len(invoices')].entries[1].acct \in EventAccts
    ELSE UNCHANGED <<ledger, rows, cs_map>>

\* C6: a settlement row with a non-zero amount takes exactly the branch of
\* the first match in the order court payment, payout, refund, membership
\* payment, event payment; a row that matches none changes nothing.
C6_FirstMatchDispatch ==
    [][(SettlementStep /\ Decimal(row'.Amount) # 0) =>
          /\ handler' = C6_Expected(row'.Description, row'.Type)
          /\ C6_Effect(C6_Expected(row'.Description, row'.Type))]_vars

\* a row with the court-booking description and the type payout was
\* processed as a court payment
C6_Witness ==
    /\ n_rows >= 1 /\ Decimal(row.Amount) # 0
    /\ row.Description = COURT_BOOKING /\ row.Type = <<"p","a","y","o","u","t">>
    /\ handler = "court" /\ txns[Len(txns)].description = COURT_BOOKING

\* C7: a court payment that finds no unallocated row of its amount in its
\* player's bucket, or no bucket, raises no exception: a diagnostic is
\* printed, no row becomes allocated and the run goes on.
C7_UnmatchedPaymentIsLogged ==
    [][(/\ SettlementStep
        /\ row'.Description = COURT_BOOKING /\ Decimal(row'.Amount) # 0
        /\ Eligible(cs_map, rows, PlayerName(row'), row'.Amount) = {}) =>
          (pc' = "reconcile" /\ error' = "" /\ printed' = printed + 1 /\ rows' = rows)]_vars

\* a refund whose fragment is not the court-booking description was posted
\* as one two-sided 'Refund' transaction, with no invoice: the target
\* account is the second split's
C8_PlainRefund ==
    /\ OneNewTxn /\ invoices' = invoices /\ customers' = customers
    /\ LET t == txns'[Len(txns')]
       IN  /\ t.description = <<"R","e","f","u","n","d">>
           /\ Len(t.splits) = 2
           /\ t.splits[1] = [acct |-> GetStripeAcct, value |-> Decimal(row'.Amount)]
           /\ t.splits[2].value = 0 - Decimal(row'.Amount)

C8_Target == txns'[Len(txns')].splits[2].acct

\* the membership sub-account of a fragment that names the tier Social
C8_MembershipTarget(item) ==
    /\ C8_Target \in MembershipAccts
    /\ (ReSearch(<<"S","o","c","i","a","l">>, item) /\ ~ReSearch(<<"J","u","n","i","o","r">>, item)) => C8_Target = "Income:Memberships:Social"

C8_IsOtherRefund ==
    /\ SettlementStep
    /\ C6_Expected(row'.Description, row'.Type) = "refund"
    /\ RefundItem(row'.Description) # COURT_BOOKING

\* C8, as stated: a refund whose fragment is not the court-booking
\* description is a plain two-sided 'Refund' transaction with no invoice; a
\* fragment of the membership naming, such as 'Coburg Tennis Club
\* Memberships:Social, ...', goes to the matching membership sub-account
\* (Social), any other to an event or fundraising sub-account.
C8_MembershipRefundRouted ==
    [][C8_IsOtherRefund =>
          LET item == RefundItem(row'.Description)
              membership == ReSearch(<<"C","o","b","u","r","g"," ","T","e","n","n","i","s"," ","C","l","u","b",":">>, item)
                               \/ item = <<"C","o","b","u","r","g"," ","T","e","n","n","i","s"," ","C","l","u","b"," ","M","e","m","b","e","r","s","h","i","p","s",":","S","o","c","i","a","l",","," ",".",".",".">>
          IN  /\ C8_PlainRefund
              /\ membership => C8_MembershipTarget(item)
              /\ ~membership => C8_Target \in EventAccts]_vars

\* C8, amended: the membership naming is the text 'Coburg Tennis Club:'
\* somewhere in the fragment (as in 'Coburg Tennis Club: 2021 Social
\* Membership', which goes to Social); every other fragment that is not the
\* court-booking description, 'Coburg Tennis Club Memberships:Social, ...'
\* among them, goes to an event or fundraising sub-account.
C8_PrefixedRefundRouted ==
    [][C8_IsOtherRefund =>
          LET item == RefundItem(row'.Description)
              membership == ReSearch(<<"C","o","b","u","r","g"," ","T","e","n","n","i","s"," ","C","l","u","b",":">>, item)
          IN  /\ C8_PlainRefund
              /\ membership => C8_MembershipTarget(item)
              /\ ~membership => C8_Target \in EventAccts
              /\ item = <<"C","o","b","u","r","g"," ","T","e","n","n","i","s"," ","C","l","u","b",":"," ","2","0","2","1"," ","S","o","c","i","a","l"," ","M","e","m","b","e","r","s","h","i","p">>
                    => C8_Target = "Income:Memberships:Social"
              /\ item = <<"C","o","b","u","r","g"," ","T","e","n","n","i","s"," ","C","l","u","b"," ","M","e","m","b","e","r","s","h","i","p","s",":","S","o","c","i","a","l",","," ",".",".",".">>
                    => C8_Target = "Income:Fundraising:Club Events"]_vars

\* a refund of 'Coburg Tennis Club: 2021 Social Membership' was posted to
\* the Social membership account
C8_Witness ==
    /\ handler = "refund"
    /\ RefundItem(row.Description) = <<"C","o","b","u","r","g"," ","T","e","n","n","i","s"," ","C","l","u","b",":"," ","2","0","2","1"," ","S","o","c","i","a","l"," ","M","e","m","b","e","r","s","h","i","p">>
    /\ txns[Len(txns)].description = <<"R","e","f","u","n","d">>
    /\ txns[Len(txns)].splits[2].acct = "Income:Memberships:Social"

C9_IsPayout == SettlementStep /\ row'.Type = <<"p","a","y","o","u","t">> /\ row'.Description # COURT_BOOKING

\* a payout row made one transaction of two splits, dated at the settlement
\* date, on the Stripe and the checking account, with no fee split, and left
\* the allocation index alone
C9_Transfer(stripe_value, checking_value) ==
    /\ OneNewTxn /\ invoices' = invoices /\ rows' = rows /\ cs_map' = cs_map
    /\ LET t == txns'[Len(txns')]
       IN  /\ t.date = FromIsoFormat(SubSeq(row'.AvailableOn, 1, 10))
           /\ Len(t.splits) = 2
           /\ t.splits[1] = [acct |-> GetStripeAcct, value |-> stripe_value]
           /\ t.splits[2] = [acct |-> GetCheckingAcct, value |-> checking_value]
           /\ SumValues(t.splits) = 0
           /\ \A s \in Range(t.splits) : s.acct # GetStripeFeeAcct

C10_EventAcct(text) ==
    IF ReSearchIgnoreCase(<<"O","p","e","n","C","o","u","r","t","S","e","s","s","i","o","n","s">>, text) THEN "Income:Events:Open Court Sessions"
    ELSE IF ReSearchIgnoreCase(<<"M","e","n","s","S","o","c","i","a","l">>, text) THEN "Income:Events:MensSocial"
    ELSE IF ReSearchIgnoreCase(<<"G","i","r","l">>, text) THEN "Income:Events:Girl Lets Play"
    ELSE IF ReSearchIgnoreCase(<<"C","l","u","b"," ","C","h","a","m","p">>, text) THEN "Income:Events:Club Championships"
    ELSE IF ReSearchIgnoreCase(<<"B","i","n","g","o">>, text) THEN "Income:Fundraising:Bingo"
    ELSE "Income:Fundraising:Club Events"

C10_MembershipAcct(text) ==
    IF ReSearchIgnoreCase(<<"J","u","n","i","o","r">>, text) THEN "Income:Memberships:Junior"
    ELSE IF ReSearchIgnoreCase(<<"S","o","c","i","a","l">>, text) THEN "Income:Memberships:Social"
    ELSE IF ReSearchIgnoreCase(<<"S","t","u","d","e","n","t">>, text) THEN "Income:Memberships:Student"
    ELSE IF ReSearchIgnoreCase(<<"S","e","n","i","o","r">>, text) THEN "Income:Memberships:Senior"
    ELSE "Income:Memberships:Individual"

\* C10: the account a payment is routed to is the first keyword, in the
\* fixed order and ignoring case, that occurs in the category text: event
\* text by OpenCourtSessions, MensSocial, Girl, Club Champ, Bingo, else Club
\* Events; membership text by Junior, Social, Student, Senior, else
\* Individual.
C10_CaseInsensitiveRouting ==
    /\ handler = "event" =>
          invoices[Len(invoices)].entries[1].acct = C10_EventAcct(EventDetail(row))
    /\ handler = "membership" =>
          invoices[Len(invoices)].entries[1].acct = C10_MembershipAcct(row.Membership)

\* C11: every booking row with a non-zero fee is in exactly one bucket of
\* the allocation index: the bucket of its player name, or the bucket
\* 'NoName' when its first and last name are both empty, and the import
\* does not fail on such a row.
C11_RowInOwnOrNoNameBucket ==
    /\ error # "TypeError"
    /\ \A k \in 1..Len(rows) :
          ~NoFee(rows[k]) =>
              LET holders == {b \in 1..Len(cs_map) : k \in Range(cs_map[b].list)}
                  unnamed == rows[k].PlayerFirstName = <<>> /\ rows[k].PlayerLastName = <<>>
              IN  /\ Cardinality(holders) = 1
                  /\ \A b \in holders :
                        cs_map[b].key = IF unnamed THEN NO_NAME_ENTRY ELSE BookingPlayerName(rows[k])

C12_IsCourtRefund ==
    /\ SettlementStep
    /\ C6_Expected(row'.Description, row'.Type) = "refund"
    /\ RefundItem(row'.Description) = COURT_BOOKING

\* the booking rows, of any bucket, booked for the refunded session at a
\* total fee of the refund amount
C12_Refunded ==
    LET session == StrptimeSession(row'.Session)
    IN  {k \in 1..Len(rows) :
            /\ \E b \in 1..Len(cs_map) : k \in Range(cs_map[b].list)
            /\ session.valid
            /\ StrptimeBooking(rows[k].BookingDate \o <<" ">> \o rows[k].BookingTime) = session
            /\ Decimal(rows[k].TotalFee) = Decimal(row'.Amount)}

\* the entries are a court refund line of court_fee and a light refund line
\* of light_fee, each only if its fee is not zero
C12_Lines(entries, court_fee, light_fee) ==
    /\ Len(entries) = (IF court_fee # 0 THEN 1 ELSE 0) + (IF light_fee # 0 THEN 1 ELSE 0)
    /\ court_fee # 0 =>
          \E e \in Range(entries) :
              e.acct = GetCourtHireAcct /\ e.price = court_fee /\ e.description = <<"C","o","u","r","t"," ","H","i","r","e"," ","R","e","f","u","n","d">>
    /\ light_fee # 0 =>
          \E e \in Range(entries) :
              e.acct = GetLightHireAcct /\ e.price = light_fee /\ e.description = <<"L","i","g","h","t"," ","H","i","r","e"," ","R","e","f","u","n","d">>

\* C12: a refund whose fragment is the court-booking description makes
\* exactly one credit note for the customer Book A Court; its lines carry
\* the court fee and light fee of a booking row of the refunded session and
\* amount if there is one, and else the whole amount as one court refund
\* line; a line is made only for a non-zero fee, and no row's allocated
\* flag changes.
C12_CreditNoteSplitsRefund ==
    [][C12_IsCourtRefund =>
          /\ OneNewInvoice
          /\ rows' = rows
          /\ LET note == invoices'[Len(invoices')]
             IN  /\ note.is_credit_note /\ note.owner = GetBookACourtCustomer
                 /\ IF C12_Refunded # {}
                    THEN \E k \in C12_Refunded :
                            C12_Lines(note.entries, Decimal(rows[k].CourtFee), Decimal(rows[k].LightFee))
                    ELSE C12_Lines(note.entries, Decimal(row'.Amount), 0)]_vars

====
